---- MODULE Spec2Model ----
(***************************************************************************)
(* Model of the Pluvia client (mle-norus-pluvia/__init__.py): the token    *)
(* lifecycle (find_token, is_valid_token, refresh_token, save_token inside *)
(* authenticate), the authenticated GET layer (request_info_from_api,      *)
(* request_file_from_api) and the identifier lookup (get_id,               *)
(* get_id_of_item).                                                        *)
(*                                                                         *)
(* Python values are represented as follows.                               *)
(*   - None of a str/bool parameter is the string "None".                  *)
(*   - an Optional[dict] is None_d or Dict(items), items a set of          *)
(*     <<key, value>> pairs; the empty dict is Dict({}).                   *)
(*   - a JSON text is [wellformed, members]: members is the sequence of    *)
(*     <<key, value>> members of the object text, in the order written.    *)
(*   - an 'expires' string in the format '%Y-%m-%dT%H:%M:%SZ' that denotes *)
(*     second s is the integer s >= 0; BadStamp is a string that strptime  *)
(*     rejects.  The clock `now` counts half seconds, so that "now" can    *)
(*     fall between two stamps as datetime.now (microseconds) does.        *)
(***************************************************************************)
EXTENDS Integers, Sequences, FiniteSets, TLC

\* ------------------------------------------------------------------ bounds
MaxSec == 1          \* expires stamps denote seconds 0..MaxSec
MaxList == 2         \* longest reference list the server returns

\* ----------------------------------------------------------- value domains
None == "None"
None_d == [tag |-> "None"]
Dict(items) == [tag |-> "dict", items |-> items]

Tokens == {"t1", "t2"}
BadStamp == 0 - 1
Stamps == 0..MaxSec
MaxNow == MaxSec + MaxSec

\* a returned value: None, a parsed JSON value or a string
RetNone == [kind |-> "None"]
RetOf(v) == IF v = None THEN RetNone ELSE [kind |-> "str", value |-> v]

\* `not x` of Python for the modelled value kinds
Falsy_d(d) == d.tag = "None" \/ d.items = {}
Falsy_s(s) == s = None \/ s = ""
Falsy_b(b) == b # "True"

Has(items, k) == \E p \in items : p[1] = k
Get(items, k) == (CHOOSE p \in items : p[1] = k)[2]

\* ------------------------------------------------------------- JSON texts
KeyOrder ==
    <<"access_token", "expires", "token_type", "username", "password", "api_key">>

\* mutant of json_dump: only the two fields the client reads are written
json_dump_known_fields(items) ==
    LET keys == SelectSeq(<<"access_token", "expires">>, LAMBDA k : Has(items, k))
    IN  [wellformed |-> TRUE,
         members |-> [i \in 1..Len(keys) |-> <<keys[i], Get(items, keys[i])>>]]

\* json.dump(token, file, indent = 4): the object text of a dict
json_dump(items) ==
    LET keys == SelectSeq(KeyOrder, LAMBDA k : Has(items, k))
    IN  [wellformed |-> TRUE,
         members |-> [i \in 1..Len(keys) |-> <<keys[i], Get(items, keys[i])>>]]

\* json.loads(text) of a well-formed object text: the dict of its members
json_loads(text) == Dict({text.members[i] : i \in 1..Len(text.members)})

GarbageText == [wellformed |-> FALSE, members |-> <<>>]
NoFile == [exists |-> FALSE, text |-> GarbageText]
FileOf(text) == [exists |-> TRUE, text |-> text]

\* object texts: a full record, and records lacking a field or carrying more
FullText(t, e) ==
    [wellformed |-> TRUE, members |-> <<<<"access_token", t>>, <<"expires", e>>>>]
FullTexts == {FullText(t, e) : t \in Tokens, e \in Stamps}
NoTokenText == [wellformed |-> TRUE, members |-> <<<<"expires", MaxSec>>>>]
NoExpiresText == [wellformed |-> TRUE, members |-> <<<<"access_token", "t1">>>>]
EmptyText == [wellformed |-> TRUE, members |-> <<>>]
ExtraText ==
    [wellformed |-> TRUE, members |->
        <<<<"access_token", "t2">>, <<"expires", MaxSec>>, <<"token_type", "bearer">>>>]

\* ------------------------------------------------------------------ state
VARIABLES
    now,            \* current UTC instant, in half seconds
    file,           \* the credential file at TOKEN_FILEPATH
    dest,           \* the destination file of request_file_from_api
    access_token,   \* module global, line 36
    login_data,     \* module global, line 37
    call            \* what the last call did: its arguments, the requests it sent
                    \* and how they were answered, its writes and its outcome

vars == <<now, file, dest, access_token, login_data, call>>

\* -------------------------------------------------------------- authenticate
Creds(u, p) == Dict({<<"username", u>>, <<"password", p>>})
Payload == Dict({<<"api_key", "k1">>})
CustomHeaders == Dict({<<"x-custom", "h">>})
JsonHeaders == Dict({<<"content-type", "application/json">>, <<"accept", "*/*">>})

\* lines 75-79
build_data(_username, _password, _data) ==
    IF Falsy_d(_data) /\ ~Falsy_s(_username) /\ ~Falsy_s(_password)
    THEN Creds(_username, _password)
    ELSE _data

\* lines 81-85
default_headers(headers) == IF Falsy_d(headers) THEN JsonHeaders ELSE headers

\* mutant of default_verify: only an absent value is defaulted, False is honoured
default_verify_honours_false(verify) == IF verify = None THEN "True" ELSE verify

\* lines 87-88 (also 240-241, 273-274)
default_verify(verify) == IF Falsy_b(verify) THEN "True" ELSE verify

\* lines 93-112: the dict read from the file, None when there is no file
find_token(f) ==
    IF f.exists
    THEN IF f.text.wellformed
         THEN [err |-> "none", token |-> json_loads(f.text)]
         ELSE [err |-> "JSONDecodeError", token |-> None_d]
    ELSE [err |-> "none", token |-> None_d]

\* datetime.strptime(s, '%Y-%m-%dT%H:%M:%SZ').replace(tzinfo = utc), in half seconds
strptime(s) == s + s

\* lines 128-131: what evaluating token['expires'] and strptime raises
is_valid_raises(token) ==
    IF Falsy_d(token) THEN "none"
    ELSE IF ~Has(token.items, "expires") THEN "KeyError"
    ELSE IF Get(token.items, "expires") = BadStamp THEN "ValueError"
    ELSE "none"

\* mutants of is_valid_token: the comparison reversed, and not strict
is_valid_token_reversed(token, dt_now) ==
    IF ~Falsy_d(token)
    THEN strptime(Get(token.items, "expires")) < dt_now
    ELSE FALSE
is_valid_token_not_strict(token, dt_now) ==
    IF ~Falsy_d(token)
    THEN strptime(Get(token.items, "expires")) >= dt_now
    ELSE FALSE

\* lines 114-138
is_valid_token(token, dt_now) ==
    IF ~Falsy_d(token)
    THEN strptime(Get(token.items, "expires")) > dt_now
    ELSE FALSE

\* response.raise_for_status(): 4xx and 5xx raise
raise_for_status(status) == status >= 400

\* lines 140-176: the POST sent and what comes of the server's answer
refresh_token(_data, headers, verify, answer) ==
    LET request == [url |-> "/v2/token", headers |-> headers,
                    json |-> _data, verify |-> verify]
    IN  IF raise_for_status(answer.status)
        THEN [request |-> request, status |-> answer.status, err |-> "HTTPError",
              content |-> answer.content, token |-> None_d]
        ELSE [request |-> request, status |-> answer.status, err |-> "none",
              content |-> answer.content, token |-> json_loads(answer.content)]

\* lines 178-195: open(token_filepath, '+w') truncates, json.dump writes
save_token(token, f, disk) ==
    IF disk = "open_fails" THEN [err |-> "OSError", opened |-> 0, file |-> f]
    ELSE IF disk = "write_fails"
         THEN [err |-> "OSError", opened |-> 1, file |-> FileOf(GarbageText)]
    ELSE [err |-> "none", opened |-> 1, file |-> FileOf(json_dump(token.items))]

\* mutant of store_refreshed: the file is opened for writing before the answer
\* is checked
store_refreshed_early_open(r, f, disk) ==
    IF r.err # "none"
    THEN [err |-> r.err, opened |-> 1, file |-> FileOf(GarbageText)]
    ELSE save_token(r.token, f, disk)

\* lines 204-214: the refresh answer is checked (line 172) before save_token runs
store_refreshed(r, f, disk) ==
    IF r.err # "none"
    THEN [err |-> r.err, opened |-> 0, file |-> f]
    ELSE save_token(r.token, f, disk)

\* mutant of set_globals: login_data is assigned before token['access_token'] is
\* evaluated
set_globals_login_first(out, token, _data) ==
    IF ~Has(token.items, "access_token")
    THEN [out EXCEPT !.err = "KeyError", !.login_data = _data]
    ELSE [out EXCEPT !.access_token = Get(token.items, "access_token"),
                     !.login_data = _data]

\* mutant of set_globals: access_token is assigned only while it is still unset
set_globals_once(out, token, _data) ==
    IF ~Has(token.items, "access_token")
    THEN [out EXCEPT !.err = "KeyError"]
    ELSE IF out.access_token # None
         THEN [out EXCEPT !.login_data = _data]
    ELSE [out EXCEPT !.access_token = Get(token.items, "access_token"),
                     !.login_data = _data]

\* lines 216-217: token['access_token'] is evaluated before either global is assigned
set_globals(out, token, _data) ==
    IF ~Has(token.items, "access_token")
    THEN [out EXCEPT !.err = "KeyError"]
    ELSE [out EXCEPT !.access_token = Get(token.items, "access_token"),
                     !.login_data = _data]

\* The outcome of a call of authenticate: the error raised ("none" when it
\* returns), the POSTs sent
\* with the status each was answered with, the number of times the credential
\* file was opened for writing, the file and the globals afterwards, and the value
\* returned (the body has no return statement: it returns None), and the body of
\* the answer to its POST.  Entry is the outcome of a call that has done nothing yet.
Entry ==
    [err |-> "none", posts |-> <<>>, answered |-> <<>>, content |-> GarbageText,
     opened |-> 0, file |-> file,
     access_token |-> access_token, login_data |-> login_data, ret |-> None]

\* mutant of after_refresh: a failed refresh is tried a second time
after_refresh_retry(r, s, _data) ==
    IF s.err # "none"
    THEN [Entry EXCEPT !.posts = <<r.request, r.request>>,
                       !.answered = <<r.status, r.status>>,
                       !.content = r.content,
                       !.opened = s.opened, !.file = s.file, !.err = s.err]
    ELSE set_globals([Entry EXCEPT !.posts = <<r.request>>, !.answered = <<r.status>>,
                                   !.content = r.content,
                                   !.opened = s.opened, !.file = s.file],
                     r.token, _data)

\* lines 204-217, after the POST: r is what refresh_token gave, s what saving gave
after_refresh(r, s, _data) ==
    IF s.err # "none"
    THEN [Entry EXCEPT !.posts = <<r.request>>, !.answered = <<r.status>>,
                       !.content = r.content,
                       !.opened = s.opened, !.file = s.file, !.err = s.err]
    ELSE set_globals([Entry EXCEPT !.posts = <<r.request>>, !.answered = <<r.status>>,
                                   !.content = r.content,
                                   !.opened = s.opened, !.file = s.file],
                     r.token, _data)

\* lines 204-214
refresh_and_save(r, _data, disk) == after_refresh(r, store_refreshed(r, file, disk), _data)

\* mutant of authenticate_with: a record whose expiry cannot be read is treated as
\* expired and refreshed
authenticate_with_fallback(found, _data, headers, verify, answer, disk) ==
    IF found.err # "none" THEN [Entry EXCEPT !.err = found.err]
    ELSE IF is_valid_raises(found.token) = "none" /\ is_valid_token(found.token, now)
         THEN set_globals(Entry, found.token, _data)
    ELSE refresh_and_save(refresh_token(_data, headers, verify, answer), _data, disk)

\* lines 200-217, with the defaults of lines 75-91 applied
authenticate_with(found, _data, headers, verify, answer, disk) ==
    IF found.err # "none" THEN [Entry EXCEPT !.err = found.err]
    ELSE IF is_valid_raises(found.token) # "none"
         THEN [Entry EXCEPT !.err = is_valid_raises(found.token)]
    ELSE IF is_valid_token(found.token, now)
         THEN set_globals(Entry, found.token, _data)
    ELSE refresh_and_save(refresh_token(_data, headers, verify, answer), _data, disk)

\* lines 43-217
authenticate(_username, _password, _data, headers, verify, answer, disk) ==
    authenticate_with(find_token(file), build_data(_username, _password, _data),
                      default_headers(headers), default_verify(verify), answer, disk)

\* --------------------------------------------------------- request layer
\* lines 234-238 and 267-271: the default headers of a GET
bearer_headers(token) ==
    Dict({<<"Authorization", "Bearer " \o token>>,
          <<"Content-Type", "application/json">>})

\* mutant of get_headers: the bearer is built from the global as it was before
\* authenticate ran
get_headers_stale(headers, auth) ==
    IF Falsy_d(headers) THEN bearer_headers(access_token) ELSE headers

\* lines 234-238: headers default to the bearer of the global access_token, which
\* authenticate has just set
get_headers(headers, auth) ==
    IF Falsy_d(headers) THEN bearer_headers(auth.access_token) ELSE headers

\* lines 231-251, after authenticate(_data = login_data) gave `auth`: the GETs
\* sent, the error raised and the value returned
info_after(auth, endpoint, headers, verify, got) ==
    IF auth.err # "none" \/ Falsy_s(endpoint)
    THEN [auth |-> auth, gets |-> <<>>, got |-> <<>>, err |-> auth.err, ret |-> RetNone]
    ELSE [auth |-> auth,
          gets |-> <<[url |-> endpoint, headers |-> get_headers(headers, auth),
                      verify |-> default_verify(verify)]>>,
          got |-> <<got.status>>,
          err |-> IF raise_for_status(got.status) THEN "HTTPError" ELSE "none",
          ret |-> IF raise_for_status(got.status) THEN RetNone
                  ELSE [kind |-> "json", value |-> got.body]]

\* mutant of request_info_from_api: authenticate is called without the login data
request_info_from_api_no_data(endpoint, headers, verify, env, got) ==
    info_after(authenticate(None, None, None_d, None_d, None, env.answer, env.disk),
               endpoint, headers, verify, got)

\* lines 223-251
request_info_from_api(endpoint, headers, verify, env, got) ==
    info_after(authenticate(None, None, login_data, None_d, None, env.answer, env.disk),
               endpoint, headers, verify, got)

\* lines 282-287: the error raised after the GET, if any.  Path(filepath, filename)
\* raises TypeError when either is None.
file_err(save_it, path, got) ==
    IF raise_for_status(got.status) THEN "HTTPError"
    ELSE IF ~Falsy_b(save_it) /\ path = None THEN "TypeError"
    ELSE "none"

\* mutant of file_saved: the body is written before the status is checked
file_saved_any_status(save_it, path, got) == ~Falsy_b(save_it) /\ path # None

\* lines 284-287: whether the body is written to the destination
file_saved(save_it, path, got) ==
    ~raise_for_status(got.status) /\ ~Falsy_b(save_it) /\ path # None

\* lines 264-287, after authenticate(_data = login_data) gave `auth`; the GET is
\* sent with verify = True whatever the argument (line 279)
file_after(auth, endpoint, headers, verify, save_it, path, got) ==
    IF auth.err # "none" \/ Falsy_s(endpoint)
    THEN [auth |-> auth, gets |-> <<>>, got |-> <<>>, err |-> auth.err, ret |-> RetNone,
          saved |-> 0, dest |-> dest]
    ELSE [auth |-> auth,
          gets |-> <<[url |-> endpoint, headers |-> get_headers(headers, auth),
                      verify |-> "True"]>>,
          got |-> <<got.status>>,
          err |-> file_err(save_it, path, got),
          ret |-> RetNone,
          saved |-> IF file_saved(save_it, path, got) THEN 1 ELSE 0,
          dest |-> IF file_saved(save_it, path, got)
                   THEN [exists |-> TRUE, content |-> got.body] ELSE dest]

\* lines 253-287
request_file_from_api(endpoint, headers, verify, save_it, path, env, got) ==
    file_after(authenticate(None, None, login_data, None_d, None, env.answer, env.disk),
               endpoint, headers, verify, save_it, path, got)

\* ------------------------------------------------------ identifier resolver
\* mutant of get_id: the last matching entry instead of the first
get_id_last(this_name, list_dict) ==
    LET matches == {i \in 1..Len(list_dict) : list_dict[i].descricao = this_name}
    IN  IF matches = {} THEN [err |-> "StopIteration", id |-> None]
        ELSE [err |-> "none",
              id |-> list_dict[CHOOSE i \in matches : \A j \in matches : i >= j].id]

\* line 304: next(i['id'] for i in list_dict if i['descricao'] == this_name)
get_id(this_name, list_dict) ==
    LET matches == {i \in 1..Len(list_dict) : list_dict[i].descricao = this_name}
    IN  IF matches = {} THEN [err |-> "StopIteration", id |-> None]
        ELSE [err |-> "none",
              id |-> list_dict[CHOOSE i \in matches : \A j \in matches : i <= j].id]

\* line 320, after fetch_ids gave `fetched`: iterating the None that
\* request_info_from_api returns for an empty endpoint raises TypeError
id_after(item_name, fetched, found) ==
    IF fetched.err # "none" THEN [fetched EXCEPT !.ret = RetNone]
    ELSE IF fetched.ret.kind = "None" THEN [fetched EXCEPT !.err = "TypeError"]
    ELSE IF found.err # "none" THEN [fetched EXCEPT !.err = found.err, !.ret = RetNone]
    ELSE [fetched EXCEPT !.ret = [kind |-> "str", value |-> found.id]]

id_from(item_name, fetched) ==
    id_after(item_name, fetched,
             IF fetched.ret.kind = "json" THEN get_id(item_name, fetched.ret.value)
             ELSE [err |-> "none", id |-> None])

\* lines 306-320: get_id(item_name, fetch_ids(endpoint))
get_id_of_item(item_name, endpoint, env, got) ==
    id_from(item_name, request_info_from_api(endpoint, None_d, None, env, got))

\* ------------------------------------------------------------ environment
\* the arguments callers pass to authenticate
AuthArgs ==
    {[username |-> None, password |-> None, data |-> None_d, headers |-> None_d, verify |-> None],
     [username |-> "u1", password |-> "p1", data |-> None_d, headers |-> None_d, verify |-> None],
     [username |-> "u1", password |-> None, data |-> None_d, headers |-> None_d, verify |-> "True"],
     [username |-> "u1", password |-> "p1", data |-> Dict({}), headers |-> None_d, verify |-> "False"],
     [username |-> None, password |-> None, data |-> Payload, headers |-> CustomHeaders, verify |-> "False"],
     [username |-> "u1", password |-> "p1", data |-> Payload, headers |-> CustomHeaders, verify |-> None]}

\* what the token endpoint answers and whether the disk takes the write: the
\* endpoint rejects (401), or accepts with a record, and a write that fails does
\* so whatever the record
Rejected == [status |-> 401, content |-> GarbageText]
Accepted(text) == [status |-> 200, content |-> text]
TokenOutcomes ==
    {[answer |-> Rejected, disk |-> "ok"]}
        \cup {[answer |-> Accepted(t), disk |-> "ok"] :
                t \in FullTexts \cup {NoTokenText, ExtraText}}
        \cup {[answer |-> Accepted(FullText("t1", MaxSec)), disk |-> d] :
                d \in {"open_fails", "write_fails"}}

NoArgs == [username |-> None, password |-> None, data |-> None_d, headers |-> None_d,
           verify |-> None, endpoint |-> None, save_it |-> None, name |-> None]
Idle == [op |-> "none", args |-> NoArgs, auth_err |-> "none", posts |-> <<>>,
         answered |-> <<>>, content |-> GarbageText, opened |-> 0, gets |-> <<>>, got |-> <<>>, saved |-> 0,
         err |-> "none", ret |-> RetNone, fetched |-> <<>>]

\* the arguments callers pass to request_info_from_api
ModesEndpoint == "/v2/valoresParametros/modos"
GetArgs ==
    {[endpoint |-> None, headers |-> None_d, verify |-> None],
     [endpoint |-> "", headers |-> None_d, verify |-> "False"],
     [endpoint |-> ModesEndpoint, headers |-> None_d, verify |-> None],
     [endpoint |-> ModesEndpoint, headers |-> None_d, verify |-> "False"],
     [endpoint |-> ModesEndpoint, headers |-> CustomHeaders, verify |-> "True"]}

\* the arguments callers pass to request_file_from_api (path: the filepath and
\* filename given, None when one is left out)
FileArgs ==
    {[endpoint |-> None, headers |-> None_d, verify |-> None, save_it |-> "True", path |-> "out"],
     [endpoint |-> "/v2/file", headers |-> None_d, verify |-> None, save_it |-> None, path |-> None],
     [endpoint |-> "/v2/file", headers |-> None_d, verify |-> "False", save_it |-> "True", path |-> "out"],
     [endpoint |-> "/v2/file", headers |-> None_d, verify |-> None, save_it |-> "False", path |-> "out"],
     [endpoint |-> "/v2/file", headers |-> CustomHeaders, verify |-> "True", save_it |-> "True", path |-> "out"],
     [endpoint |-> "/v2/file", headers |-> None_d, verify |-> None, save_it |-> "True", path |-> None]}

\* reference lists: entries {id, descricao}
Entries ==
    {[id |-> "1", descricao |-> "Diário"], [id |-> "2", descricao |-> "Mensal"],
     [id |-> "3", descricao |-> "Diário"]}
Names == {"Diário", "Weekly"}
RECURSIVE ListsOfLen(_)
ListsOfLen(n) ==
    IF n = 0 THEN {<<>>}
    ELSE {<<e>> \o l : e \in Entries, l \in ListsOfLen(n - 1)}
RefLists == UNION {ListsOfLen(n) : n \in 0..MaxList}
SampleLists ==
    {<<>>, <<[id |-> "1", descricao |-> "Diário"], [id |-> "2", descricao |-> "Mensal"]>>}

\* answers of a GET: 200 with a body, or 404
JsonAnswers(lists) ==
    {[status |-> 200, body |-> l] : l \in lists} \cup {[status |-> 404, body |-> <<>>]}
FileAnswers ==
    {[status |-> 200, body |-> <<"chunk1", "chunk2">>], [status |-> 404, body |-> <<>>]}

\* the choices of the environment that a call in the current state can meet: the
\* token endpoint is reached only by a call that refreshes, a GET only with an
\* endpoint
refresh_reached(found) ==
    /\ found.err = "none"
    /\ is_valid_raises(found.token) = "none"
    /\ ~is_valid_token(found.token, now)
will_refresh == refresh_reached(find_token(file))
TokenOutcomesNow ==
    IF will_refresh THEN TokenOutcomes ELSE {[answer |-> Rejected, disk |-> "ok"]}
AnswersFor(endpoint, answers) ==
    IF Falsy_s(endpoint) THEN {[status |-> 404, body |-> <<>>]} ELSE answers

InitFiles ==
    {NoFile, FileOf(GarbageText)}
        \cup {FileOf(t) : t \in FullTexts \cup
                {FullText("t1", BadStamp), NoTokenText, NoExpiresText, EmptyText}}

Init ==
    /\ now = 0
    /\ file \in InitFiles
    /\ dest = [exists |-> FALSE, content |-> <<>>]
    /\ access_token = None
    /\ login_data = None_d
    /\ call = Idle

\* time passes between calls
Tick ==
    /\ now < MaxNow
    /\ now' = now + 1
    /\ call' = Idle
    /\ UNCHANGED <<file, dest, access_token, login_data>>

\* a caller runs authenticate(...)
Authenticate ==
    \E x \in AuthArgs, env \in TokenOutcomesNow :
        \E a \in {authenticate(x.username, x.password, x.data, x.headers, x.verify,
                                env.answer, env.disk)} :
            /\ file' = a.file
            /\ access_token' = a.access_token
            /\ login_data' = a.login_data
            /\ call' = [Idle EXCEPT !.op = "authenticate",
                            !.args = [NoArgs EXCEPT !.username = x.username,
                                         !.password = x.password, !.data = x.data,
                                         !.headers = x.headers, !.verify = x.verify],
                            !.auth_err = a.err, !.posts = a.posts,
                            !.answered = a.answered, !.content = a.content,
                            !.opened = a.opened,
                            !.err = a.err, !.ret = RetOf(a.ret)]
            /\ UNCHANGED <<now, dest>>

\* a caller runs request_info_from_api(...)
GetJson ==
    \E x \in GetArgs, env \in TokenOutcomesNow :
      \E got \in AnswersFor(x.endpoint, JsonAnswers(SampleLists)) :
        \E g \in {request_info_from_api(x.endpoint, x.headers, x.verify, env, got)} :
            /\ file' = g.auth.file
            /\ access_token' = g.auth.access_token
            /\ login_data' = g.auth.login_data
            /\ call' = [Idle EXCEPT !.op = "get_json",
                            !.args = [NoArgs EXCEPT !.endpoint = x.endpoint,
                                         !.headers = x.headers, !.verify = x.verify],
                            !.auth_err = g.auth.err, !.posts = g.auth.posts,
                            !.answered = g.auth.answered,
                            !.content = g.auth.content,
                            !.opened = g.auth.opened, !.gets = g.gets, !.got = g.got,
                            !.err = g.err, !.ret = g.ret]
            /\ UNCHANGED <<now, dest>>

\* a caller runs request_file_from_api(...)
GetFile ==
    \E x \in FileArgs, env \in TokenOutcomesNow :
      \E got \in AnswersFor(x.endpoint, FileAnswers) :
        \E g \in {request_file_from_api(x.endpoint, x.headers, x.verify, x.save_it,
                                         x.path, env, got)} :
            /\ file' = g.auth.file
            /\ access_token' = g.auth.access_token
            /\ login_data' = g.auth.login_data
            /\ dest' = g.dest
            /\ call' = [Idle EXCEPT !.op = "get_file",
                            !.args = [NoArgs EXCEPT !.endpoint = x.endpoint,
                                         !.headers = x.headers, !.verify = x.verify,
                                         !.save_it = x.save_it],
                            !.auth_err = g.auth.err, !.posts = g.auth.posts,
                            !.answered = g.auth.answered,
                            !.content = g.auth.content,
                            !.opened = g.auth.opened, !.gets = g.gets, !.got = g.got,
                            !.saved = g.saved, !.err = g.err, !.ret = g.ret]
            /\ UNCHANGED now

\* a caller runs get_id_of_item(item_name, endpoint) against a server whose
\* reference list is one of `lists`
Resolve(lists) ==
    \E n \in Names, e \in {None, ModesEndpoint}, env \in TokenOutcomesNow :
      \E got \in AnswersFor(e, JsonAnswers(lists)) :
        \E g \in {get_id_of_item(n, e, env, got)} :
            /\ file' = g.auth.file
            /\ access_token' = g.auth.access_token
            /\ login_data' = g.auth.login_data
            /\ call' = [Idle EXCEPT !.op = "get_id_of_item",
                            !.args = [NoArgs EXCEPT !.endpoint = e, !.name = n],
                            !.auth_err = g.auth.err, !.posts = g.auth.posts,
                            !.answered = g.auth.answered,
                            !.content = g.auth.content,
                            !.opened = g.auth.opened, !.gets = g.gets, !.got = g.got,
                            !.err = g.err, !.ret = g.ret,
                            !.fetched = IF g.got = <<200>> THEN got.body ELSE <<>>]
            /\ UNCHANGED <<now, dest>>

ResolveSample == Resolve(SampleLists)

Next == Tick \/ Authenticate \/ GetJson \/ GetFile \/ ResolveSample

Spec == Init /\ [][Next]_vars

\* the resolver against every reference list up to MaxList entries
ResolveAny == Resolve(RefLists)

NextResolve == Tick \/ ResolveAny

SpecResolve == Init /\ [][NextResolve]_vars

\* ------------------------------------------------------------------ claims
\* what the credential file holds, read off its text
StoredExpiry(f) ==
    {f.text.members[i][2] :
        i \in {j \in 1..Len(f.text.members) : f.text.members[j][1] = "expires"}}
StoredToken(f) ==
    {f.text.members[i][2] :
        i \in {j \in 1..Len(f.text.members) : f.text.members[j][1] = "access_token"}}
Readable(f) == f.exists /\ f.text.wellformed
\* a record whose expiry is strictly later than instant t (half seconds)
FreshRecord(f, t) ==
    Readable(f) /\ \E e \in StoredExpiry(f) : e # BadStamp /\ 2 * e > t
\* a record whose expiry is instant t or earlier
ExpiredRecord(f, t) ==
    Readable(f) /\ \E e \in StoredExpiry(f) : e # BadStamp /\ 2 * e <= t
NoCredentials(args) ==
    Falsy_d(args.data) /\ (Falsy_s(args.username) \/ Falsy_s(args.password))

\* C1: with a stored record whose expiry is strictly later than now, a call of
\* authenticate sends no POST and does not write the credential file.
C1_FreshRecordNoPostNoWrite ==
    [][(FreshRecord(file, now) /\ call'.op = "authenticate")
        => (call'.posts = <<>> /\ call'.opened = 0 /\ file' = file)]_vars
\* authenticate has returned from a fresh record without a POST
C1_Witness ==
    /\ call.op = "authenticate" /\ call.err = "none" /\ call.posts = <<>>
    /\ FreshRecord(file, now)

\* C2: with an expired stored record and an accepted exchange, authenticate
\* sends exactly one POST, writes the file exactly once and returns the access
\* token of the new record.
C2_ExpiredRefreshReturnsNewToken ==
    [][(ExpiredRecord(file, now) /\ call'.op = "authenticate"
            /\ ~NoCredentials(call'.args)
            /\ call'.answered = <<200>> /\ call'.err = "none")
        => (Len(call'.posts) = 1 /\ call'.opened = 1
            /\ call'.ret.kind = "str" /\ call'.ret.value \in StoredToken(file'))]_vars

\* C3: when the token endpoint rejects the refresh, authenticate fails with the
\* HTTP error and the credential file is left exactly as it was.
C3_RejectedRefreshKeepsFile ==
    [][(call'.op = "authenticate" /\ call'.answered = <<401>>)
        => (call'.err = "HTTPError" /\ call'.opened = 0 /\ file' = file)]_vars
\* a refresh was rejected while a persisted record existed
C3_Witness ==
    /\ call.op = "authenticate" /\ call.answered = <<401>>
    /\ Readable(file) /\ StoredToken(file) # {}

\* C4 (as stated): a failing operation leaves the globals as they were, and the
\* access token is overwritten only after a successful refresh.
C4_OverwrittenOnlyAfterRefresh ==
    [][/\ (call'.auth_err # "none"
            => (access_token' = access_token /\ login_data' = login_data))
       /\ (access_token' # access_token => call'.answered = <<200>>)]_vars
\* C4 (amended): the globals change only in a call whose authenticate ran to
\* completion, after a successful refresh and save or from a still valid record;
\* a call whose authenticate fails leaves both as they were.
C4_GlobalsChangeOnlyOnCompletedAuth ==
    [][(access_token' # access_token \/ login_data' # login_data)
        => (call'.op # "none" /\ call'.auth_err = "none")]_vars
\* a refresh failed after an earlier authentication had set the token
C4_Witness ==
    /\ call.op # "none" /\ call.auth_err # "none" /\ call.posts # <<>>
    /\ access_token # None

\* C5: every successful call of authenticate returns the access token it has
\* just set.
C5_ReturnsAccessToken ==
    (call.op = "authenticate" /\ call.err = "none")
        => (call.ret.kind = "str" /\ call.ret.value = access_token)

\* C6: request_info_from_api with an empty or unset endpoint returns None and
\* sends neither a GET nor a token POST.
C6_EmptyEndpointNoNetwork ==
    (call.op = "get_json" /\ Falsy_s(call.args.endpoint))
        => /\ call.gets = <<>> /\ call.posts = <<>>
           /\ call.err = "none" => call.ret = RetNone

\* C7: without credentials, authenticate that has to refresh fails with an
\* invalid-arguments error and sends no POST; with a fresh record it succeeds.
C7_NoCredentialsNoPost ==
    [][(call'.op = "authenticate" /\ NoCredentials(call'.args))
        => /\ (~file.exists \/ ExpiredRecord(file, now))
                => (call'.posts = <<>> /\ call'.err = "InvalidArgumentsError")
           /\ (FreshRecord(file, now) /\ StoredToken(file) # {})
                => call'.err = "none"]_vars

\* C8: is_valid_token is true exactly for a record whose expires instant is
\* strictly later than now: false at equality and before, false for no record.
C8_IsValidIffStrictlyFuture ==
    /\ ~is_valid_token(None_d, now)
    /\ (Readable(file) /\ StoredExpiry(file) # {} /\ BadStamp \notin StoredExpiry(file))
        => (is_valid_token(json_loads(file.text), now)
                <=> \E e \in StoredExpiry(file) : 2 * e > now)
\* the stored record expires exactly now
C8_Witness ==
    /\ Readable(file) /\ now > 0
    /\ \E e \in StoredExpiry(file) : e # BadStamp /\ 2 * e = now
    /\ ~is_valid_token(json_loads(file.text), now)

\* C9: a GET of request_info_from_api or request_file_from_api is sent only
\* after authenticate has completed, exactly once for a non-empty endpoint, and
\* with default headers it carries the bearer of the access token just set.
C9_GetCarriesTokenJustSet ==
    call.op \in {"get_json", "get_file"}
        => /\ call.auth_err # "none" => call.gets = <<>>
           /\ (call.auth_err = "none" /\ ~Falsy_s(call.args.endpoint))
                => Len(call.gets) = 1
           /\ (call.gets # <<>> /\ Falsy_d(call.args.headers))
                => <<"Authorization", "Bearer " \o access_token>>
                        \in call.gets[1].headers.items
\* a GET with default headers went out after a refresh inside the same call
C9_Witness ==
    /\ call.op = "get_json" /\ call.gets # <<>> /\ call.posts # <<>>
    /\ Falsy_d(call.args.headers)

\* C10: get_id_of_item returns the id of the first entry of the fetched list whose
\* descricao equals the name, and raises exactly when no entry matches.
C10_ResolveFirstMatch ==
    (call.op = "get_id_of_item" /\ call.got = <<200>>)
        => IF \E i \in 1..Len(call.fetched) : call.fetched[i].descricao = call.args.name
           THEN /\ call.err = "none" /\ call.ret.kind = "str"
                /\ \E i \in 1..Len(call.fetched) :
                      /\ call.fetched[i].descricao = call.args.name
                      /\ \A j \in 1..(i - 1) : call.fetched[j].descricao # call.args.name
                      /\ call.ret.value = call.fetched[i].id
           ELSE call.err = "StopIteration" /\ call.ret = RetNone
\* two entries match the name and carry different ids
C10_Witness ==
    /\ call.op = "get_id_of_item" /\ call.err = "none" /\ Len(call.fetched) = 2
    /\ call.fetched[1].descricao = call.args.name
    /\ call.fetched[2].descricao = call.args.name
    /\ call.fetched[1].id # call.fetched[2].id

\* C11: a record saved by save_token and then loaded by find_token from the same
\* path is the record that was saved: after a call whose save completed, the
\* dict find_token reads from the credential file equals the dict parsed from
\* the refresh answer, on access_token, expires and every other field.
C11_SaveThenLoadIsIdentity ==
    (call.opened = 1 /\ call.auth_err # "OSError")
        => find_token(file) = [err |-> "none", token |-> json_loads(call.content)]
C11_Witness ==
    /\ call.opened = 1
    /\ call.auth_err = "none"
    /\ call.content = ExtraText
    /\ Has(find_token(file).token.items, "token_type")

\* the keys of login data: username/password or the supplied payload
LoginKeys == {"username", "password", "api_key"}
HoldsLoginData(f) ==
    \E i \in 1..Len(f.text.members) : f.text.members[i][1] \in LoginKeys

\* C12: login data is never written to the credential file, whose content is
\* its initial content or exactly the body of the most recent successful
\* refresh: in every step the file holds no login data, and when a step changes
\* the file, that step's token POST succeeded and (the POST having carried login
\* data) the file then reads back as exactly the body of its answer.
C12_FileIsInitialOrRefreshBody ==
    [][/\ ~HoldsLoginData(file')
       /\ file' # file =>
            /\ call'.answered = <<200>>
            /\ ~Falsy_d(call'.posts[1].json) =>
                    find_token(file') =
                        [err |-> "none", token |-> json_loads(call'.content)]]_vars

C14_NoRetry ==
    /\ Len(call.posts) <= 1 /\ Len(call.answered) = Len(call.posts)
    /\ Len(call.gets) <= 1 /\ Len(call.got) = Len(call.gets)
    /\ call.op = "authenticate" => call.gets = <<>>
    /\ \A i \in 1..Len(call.answered) :
            raise_for_status(call.answered[i])
                => call.err = "HTTPError" /\ call.gets = <<>>
    /\ \A i \in 1..Len(call.got) :
            raise_for_status(call.got[i]) => call.err = "HTTPError"
C14_Witness ==
    /\ call.op = "get_json"
    /\ ~Falsy_s(call.args.endpoint)
    /\ call.answered = <<401>>
    /\ call.err = "HTTPError"
    /\ call.gets = <<>>

\* a stored record whose expires field is missing or not a parsable instant
UnreadableExpiry(f) ==
    Readable(f) /\ (StoredExpiry(f) = {} \/ BadStamp \in StoredExpiry(f))
FailsUntouched ==
    /\ call'.err \in {"KeyError", "ValueError"}
    /\ call'.posts = <<>>
    /\ call'.opened = 0
    /\ file' = file
    /\ access_token' = access_token
    /\ login_data' = login_data

\* C15, as stated: when the stored record is present but its expires field is
\* missing or unparsable, authenticate (called with credentials) fails with the
\* propagated error, sends no POST, does not write the file and leaves the
\* globals unchanged.
C15_UnreadableExpiryFails ==
    [][(call'.op = "authenticate" /\ ~NoCredentials(call'.args)
            /\ UnreadableExpiry(file)) => FailsUntouched]_vars

\* C15, amended: the same for a stored record that has at least one field; an
\* empty stored object is treated as an absent record.
C15_NonEmptyUnreadableExpiryFails ==
    [][(call'.op = "authenticate" /\ UnreadableExpiry(file)
            /\ file.text.members # <<>>) => FailsUntouched]_vars
C15_Witness ==
    /\ call.op = "authenticate"
    /\ BadStamp \in StoredExpiry(file)
    /\ call.err = "ValueError"
    /\ call.posts = <<>>

\* C16: request_file_from_api writes the destination file only when the save
\* flag is set and only after its GET succeeded: a step that writes or changes
\* the destination is a get_file call with a non-empty endpoint, save_it true,
\* authentication completed and the GET answered 200.
C16_DestinationWrittenOnlyOnSavedSuccess ==
    [][(dest' # dest \/ call'.saved # 0) =>
            /\ call'.op = "get_file"
            /\ ~Falsy_s(call'.args.endpoint)
            /\ ~Falsy_b(call'.args.save_it)
            /\ call'.auth_err = "none"
            /\ call'.got = <<200>>]_vars
C16_Witness ==
    /\ call.op = "get_file"
    /\ call.saved = 1
    /\ dest = [exists |-> TRUE, content |-> <<"chunk1", "chunk2">>]

\* C17: after every call whose authenticate completed (hence at every GET sent
\* with the default headers) the global access_token is the access_token field
\* of the record the credential file holds, and the default Authorization
\* header carries it.
C17_GlobalTokenIsStoredToken ==
    (call.op # "none" /\ call.auth_err = "none") =>
        /\ Readable(file)
        /\ StoredToken(file) = {access_token}
        /\ \A i \in 1..Len(call.gets) :
                Falsy_d(call.args.headers) =>
                    \A t \in StoredToken(file) :
                        call.gets[i].headers = bearer_headers(t)
C17_Witness ==
    /\ call.op = "get_file"
    /\ call.answered = <<200>>
    /\ call.gets # <<>>
    /\ Falsy_d(call.args.headers)
    /\ access_token = "t2"
    /\ StoredToken(file) = {"t2"}

\* C18: request_info_from_api and request_file_from_api never change the global
\* login_data, whether or not the authenticate they run refreshes the token.
C18_GetCallsKeepLoginData ==
    [][call'.op \in {"get_json", "get_file"} => login_data' = login_data]_vars
C18_Witness ==
    /\ call.op = "get_json"
    /\ call.answered = <<200>>
    /\ call.auth_err = "none"
    /\ login_data = Creds("u1", "p1")

\* C19: login data established by a successful authenticate is never lost to
\* an absent value: the token POST sent from inside a GET call carries the
\* global login_data as its body, and an authenticate call that supplies no
\* credentials (and is served from the still-valid stored record, sending no
\* POST) leaves established login data as it was.
C19_EstablishedLoginDataKept ==
    [][/\ (call'.op \in {"get_json", "get_file"} /\ call'.posts # <<>>)
            => call'.posts[1].json = login_data
       /\ (call'.op = "authenticate" /\ NoCredentials(call'.args)
                /\ call'.posts = <<>> /\ ~Falsy_d(login_data))
            => login_data' = login_data]_vars
====
